---------------------------- MODULE Spec2Model ----------------------------
(***************************************************************************)
(* Model of the Playwright/pytest test framework: configuration resolution *)
(* (config.py), the fixture graph of conftest.py as pytest executes it     *)
(* (session- and function-scoped generator fixtures, the report hook), and *)
(* the records the lifecycle hook hands to utils/logger.py.                *)
(*                                                                         *)
(* Strings the code inspects character by character (TIMEOUT, HEADLESS)    *)
(* are sequences of one-character strings; strings the code only compares  *)
(* or uses as dictionary keys (BROWSER, DEVICE) are TLA+ strings.          *)
(***************************************************************************)
EXTENDS Integers, Sequences, FiniteSets, TLC

(***************************************************************************)
(* Bounds of the model.                                                    *)
(***************************************************************************)
\* number of collected test items of the session
NumTests == 3
\* longest TIMEOUT / HEADLESS environment string enumerated character-wise
MaxStrLen == 3
\* largest advance of time.time() during one test body
MaxTick == 1

(***************************************************************************)
(* Environment values: os.getenv(name, default).                           *)
(***************************************************************************)
Unset == [set |-> FALSE]
Str(s) == [set |-> TRUE, val |-> s]

getenv(e, name, default) == IF e[name].set THEN e[name].val ELSE default

(***************************************************************************)
(* str.lower() on the characters the model uses.                           *)
(***************************************************************************)
UpperLetters ==
    <<"A", "B", "C", "D", "E", "F", "G", "H", "I", "J", "K", "L", "M",
      "N", "O", "P", "Q", "R", "S", "T", "U", "V", "W", "X", "Y", "Z">>

LowerLetters ==
    <<"a", "b", "c", "d", "e", "f", "g", "h", "i", "j", "k", "l", "m",
      "n", "o", "p", "q", "r", "s", "t", "u", "v", "w", "x", "y", "z">>

UpperToLower ==
    [c \in {UpperLetters[i] : i \in DOMAIN UpperLetters} |->
        LowerLetters[CHOOSE i \in DOMAIN UpperLetters : UpperLetters[i] = c]]

LowerChar(c) == IF c \in DOMAIN UpperToLower THEN UpperToLower[c] ELSE c

lower(s) == [i \in 1..Len(s) |-> LowerChar(s[i])]

\* str.upper()
UpperChar(c) ==
    IF \E u \in DOMAIN UpperToLower : UpperToLower[u] = c
    THEN CHOOSE u \in DOMAIN UpperToLower : UpperToLower[u] = c
    ELSE c

upper(s) == [i \in 1..Len(s) |-> UpperChar(s[i])]

(***************************************************************************)
(* int(str): surrounding whitespace is stripped, one optional sign, then   *)
(* decimal digits in which single underscores may separate digits.         *)
(* Anything else raises ValueError.                                        *)
(***************************************************************************)
Digits == {"0", "1", "2", "3", "4", "5", "6", "7", "8", "9"}

DigitVal(c) ==
    CASE c = "0" -> 0 [] c = "1" -> 1 [] c = "2" -> 2 [] c = "3" -> 3
      [] c = "4" -> 4 [] c = "5" -> 5 [] c = "6" -> 6 [] c = "7" -> 7
      [] c = "8" -> 8 [] c = "9" -> 9

IsSpace(c) == c \in {" ", "\t", "\n"}

RECURSIVE lstrip(_)
lstrip(s) == IF s # <<>> /\ IsSpace(Head(s)) THEN lstrip(Tail(s)) ELSE s

RECURSIVE rstrip(_)
rstrip(s) ==
    IF s # <<>> /\ IsSpace(s[Len(s)]) THEN rstrip(SubSeq(s, 1, Len(s) - 1)) ELSE s

strip(s) == rstrip(lstrip(s))

HasSign(s) == s # <<>> /\ Head(s) \in {"+", "-"}

\* the digit part of an integer literal: digits, single underscores only
\* between two digits
ValidDigits(d) ==
    /\ d # <<>>
    /\ \A i \in 1..Len(d) : d[i] \in Digits \cup {"_"}
    /\ d[1] # "_"
    /\ d[Len(d)] # "_"
    /\ \A i \in 1..(Len(d) - 1) : ~(d[i] = "_" /\ d[i + 1] = "_")

RECURSIVE DigitsValue(_, _)
DigitsValue(d, acc) ==
    IF d = <<>> THEN acc
    ELSE IF Head(d) = "_" THEN DigitsValue(Tail(d), acc)
    ELSE DigitsValue(Tail(d), 10 * acc + DigitVal(Head(d)))

\* [ok |-> TRUE, val |-> n] or [ok |-> FALSE] (ValueError)
int(s) ==
    LET t == strip(s)
        body == IF HasSign(t) THEN Tail(t) ELSE t
        neg == HasSign(t) /\ Head(t) = "-"
    IN  IF ValidDigits(body)
        THEN [ok |-> TRUE,
              val |-> IF neg THEN 0 - DigitsValue(body, 0) ELSE DigitsValue(body, 0)]
        ELSE [ok |-> FALSE]

(***************************************************************************)
(* config.py: the class body of Config, evaluated once at import.          *)
(***************************************************************************)
DefaultTimeoutText == <<"3", "0", "0", "0", "0">>
FallbackTimeout == 30000

\* variant: int(...) outside any try block, the ValueError escapes
ConfigTimeoutUnguarded(e) ==
    LET parsed == int(getenv(e, "TIMEOUT", DefaultTimeoutText))
    IN  IF parsed.ok THEN [raised |-> FALSE, value |-> parsed.val]
        ELSE [raised |-> TRUE, value |-> 0]

\* try: TIMEOUT = int(...) except ValueError: TIMEOUT = 30000
\* raised: an exception left the statement
ConfigTimeout(e) ==
    LET parsed == int(getenv(e, "TIMEOUT", DefaultTimeoutText))
    IN  IF parsed.ok THEN [raised |-> FALSE, value |-> parsed.val]
        ELSE [raised |-> FALSE, value |-> FallbackTimeout]

TruthyTokens ==
    {<<"t", "r", "u", "e">>, <<"1">>, <<"y", "e", "s">>, <<"o", "n">>}

\* variant: the comparison without .lower()
ConfigHeadlessCaseSensitive(e) ==
    getenv(e, "HEADLESS", <<"t", "r", "u", "e">>) \in TruthyTokens

ConfigHeadless(e) ==
    lower(getenv(e, "HEADLESS", <<"t", "r", "u", "e">>)) \in TruthyTokens

ConfigBrowser(e) == getenv(e, "BROWSER", "chromium")

ConfigDevice(e) == getenv(e, "DEVICE", "Desktop Chrome")

\* Config.DEVICES; "None" stands for Python's None
DEVICES ==
    [d \in {"Desktop Chrome", "iPhone 12", "iPad", "Pixel 5"} |->
        IF d = "Desktop Chrome" THEN "None" ELSE d]

\* LOG_LEVEL = os.getenv('LOG_LEVEL', 'INFO').upper()
ConfigLogLevel(e) == upper(getenv(e, "LOG_LEVEL", <<"I", "N", "F", "O">>))

ConfigLogToFile(e) ==
    lower(getenv(e, "LOG_TO_FILE", <<"t", "r", "u", "e">>)) \in TruthyTokens

ConfigLogToConsole(e) ==
    lower(getenv(e, "LOG_TO_CONSOLE", <<"t", "r", "u", "e">>)) \in TruthyTokens

Config(e) ==
    [raised   |-> ConfigTimeout(e).raised,
     TIMEOUT  |-> ConfigTimeout(e).value,
     HEADLESS |-> ConfigHeadless(e),
     BROWSER  |-> ConfigBrowser(e),
     DEVICE   |-> ConfigDevice(e),
     LOG_LEVEL      |-> ConfigLogLevel(e),
     LOG_TO_FILE    |-> ConfigLogToFile(e),
     LOG_TO_CONSOLE |-> ConfigLogToConsole(e)]


(***************************************************************************)
(* State.                                                                  *)
(***************************************************************************)
VARIABLES
    env,          \* the process environment (read by config.py at import)
    config,       \* the Config class attributes, meaningful once imported
    pc,           \* position of the pytest run
    test,         \* index of the current test item, 0 before the first
    idx,          \* position in the fixture closure during a setup phase
    cache,        \* cached result of each session-scoped fixture
    sessStack,    \* finalizers registered on the session, last in first out
    fnStack,      \* finalizers registered on the current item
    item,         \* rep_setup / rep_call / rep_teardown of the current item
    engine,       \* the sync_playwright() handle
    browsers,     \* browsers launched, in launch order
    contexts,     \* contexts created, in creation order
    pages,        \* pages created, in creation order
    attempts,     \* driver calls made: launch, new_context and new_page
    bodyResult,   \* how each item's test function ended, "none" if not called
    now,          \* time.time()
    start_time,   \* local of log_test_execution
    log,          \* records handed to loggers by this process
    logFile,      \* the file at Config.LOG_FILE_PATH
    loggers,      \* logging's registry: level and handlers of each logger
    held,         \* names of the loggers some caller has looked up
    ops,          \* logger operations performed so far
    sinceClear,   \* log writes since the last clear_log_file, -1 before one
    lastEvent,    \* the last log write: logger, level, lines added to the file
    lastClear,    \* the last clear_log_file call and how it ended
    logDir,       \* the directory of Config.LOG_FILE_PATH: present or not
    argv,         \* command line of test_runner.py
    allureCli,    \* whether `allure --version` runs and returns 0
    rpc,          \* position of test_runner.main
    command,      \* argument list of the child pytest process
    childEnv,     \* environment handed to the child process
    returncode,   \* exit code of the child process, Unset while there is none
    exitCode,     \* exit code of test_runner.py
    world,        \* what the browser page shows to the page object
    lastOp,       \* the last page-object operation and how it ended
    workers       \* the pytest-xdist worker processes of a parallel run

vars == <<env, config, pc, test, idx, cache, sessStack, fnStack, item, engine,
          browsers, contexts, pages, attempts, bodyResult, now, start_time, log,
          logFile, loggers, held, ops, sinceClear, lastEvent, lastClear, logDir,
          argv, allureCli,
          rpc, command, childEnv, returncode, exitCode, world, lastOp, workers>>

driverVars == <<engine, browsers, contexts, pages, attempts>>
logVars == <<log, logFile, loggers, logDir>>
loggerVars == <<held, ops, sinceClear, lastEvent, lastClear>>
runnerVars == <<argv, allureCli, rpc, command, childEnv, returncode, exitCode>>
pageVars == <<world, lastOp>>
workerVars == <<workers>>
sessionVars == <<test, idx, cache, sessStack, fnStack, item, driverVars,
                 bodyResult, now, start_time>>

(***************************************************************************)
(* pytest: the fixture closure of every test item of tests/test_login.py   *)
(* (each requests `page`), in instantiation order.  pytest orders the      *)
(* closure by scope first (session before function), then by dependency    *)
(* (a fixture's arguments before the fixture), then autouse before         *)
(* requested.  So the session-scoped playwright, browser_type and browser  *)
(* are set up before the function-scoped autouse log_test_execution, and   *)
(* a fixture that raises ends the setup phase: the fixtures after it in    *)
(* this order are not set up for the item.                                 *)
(***************************************************************************)
FixtureOrder ==
    <<"setup_logging", "playwright", "browser_type", "browser",
      "log_test_execution", "setup_test_environment", "context", "page">>

SessionScoped == {"setup_logging", "playwright", "browser_type", "browser"}

NoReports == [setup |-> "none", call |-> "none", teardown |-> "none"]

\* pytest_runtest_makereport: setattr(item, "rep_" + rep.when, rep)
pytest_runtest_makereport(it, when, outcome) == [it EXCEPT ![when] = outcome]

\* the fixture at position idx returned or yielded: go on with the next
\* fixture of the closure, or end the setup phase
FixtureReady ==
    IF idx = Len(FixtureOrder)
    THEN /\ pc' = "call"
         /\ item' = pytest_runtest_makereport(item, "setup", "passed")
         /\ idx' = idx
    ELSE /\ idx' = idx + 1
         /\ UNCHANGED <<pc, item>>

\* the fixture at position idx raised: the setup phase ends, the test
\* function is not called, the teardown phase runs
FixtureRaised ==
    /\ pc' = "teardown"
    /\ item' = pytest_runtest_makereport(item, "setup", "failed")
    /\ idx' = idx

AtFixture(name) ==
    /\ pc = "setup"
    /\ FixtureOrder[idx] = name
    /\ (name \in SessionScoped => cache[name].state = "unset")

\* finalizers run last in first out; an entry holds the fixture's local value
Finalizer(name, value) == [fixture |-> name, value |-> value]

Top(stack) == stack[Len(stack)]

AtFinalizer(stack, name) == stack # <<>> /\ Top(stack).fixture = name

Pop(stack) == SubSeq(stack, 1, Len(stack) - 1)

(***************************************************************************)
(* utils/logger.py, under the default LOG_LEVEL / LOG_TO_FILE settings:    *)
(* every info and error record reaches the file sink.                      *)
(***************************************************************************)
\* names of loggers are their dotted paths, as sequences of components
UtilsLogger == <<"utils", "logger">>

\* TestLogger.get_test_logger(test_name): "test.<name>", or "test" for None
get_test_logger(test_name) ==
    IF test_name = "None" THEN <<"test">> ELSE <<"test", test_name>>

\* request.node.name of the item with index t
NodeName(t) == ToString(t)

\* the loggers the modelled code looks up
LoggerNames ==
    {UtilsLogger, get_test_logger("None"), get_test_logger("LoginPage")}
        \cup {get_test_logger(NodeName(t)) : t \in 1..NumTests}

\* logging.getLogger before any configuration: level NOTSET, no handlers
NoLoggers == [n \in LoggerNames |-> [level |-> 0, handlers |-> <<>>]]

\* the integer attributes of the logging module that name a level
LoggingLevels ==
    {<<<<"N", "O", "T", "S", "E", "T">>, 0>>,
     <<<<"D", "E", "B", "U", "G">>, 10>>,
     <<<<"I", "N", "F", "O">>, 20>>,
     <<<<"W", "A", "R", "N">>, 30>>,
     <<<<"W", "A", "R", "N", "I", "N", "G">>, 30>>,
     <<<<"E", "R", "R", "O", "R">>, 40>>,
     <<<<"F", "A", "T", "A", "L">>, 50>>,
     <<<<"C", "R", "I", "T", "I", "C", "A", "L">>, 50>>}

\* getattr(logging, name, default)
getattr_logging(name, default) ==
    IF \E p \in LoggingLevels : p[1] = name
    THEN (CHOOSE p \in LoggingLevels : p[1] = name)[2]
    ELSE default

\* logging.INFO, the fallback of setup_logger
LoggingInfo == getattr_logging(<<"I", "N", "F", "O">>, 0)

\* the level of logger.debug / info / warning / error calls
LevelNo(l) ==
    CASE l = "DEBUG" -> 10 [] l = "INFO" -> 20 [] l = "WARNING" -> 30
      [] l = "ERROR" -> 40

\* the level a record is logged at: info unless the record says otherwise
RecLevel(rec) == IF "level" \in DOMAIN rec THEN rec.level ELSE "INFO"

\* the handlers setup_logger adds: a FileHandler when LOG_TO_FILE, a
\* StreamHandler(sys.stdout) when LOG_TO_CONSOLE, both at the resolved level
NewHandlers(c) ==
    LET level == getattr_logging(c.LOG_LEVEL, LoggingInfo)
    IN  (IF c.LOG_TO_FILE THEN <<[kind |-> "file", level |-> level]>> ELSE <<>>)
        \o (IF c.LOG_TO_CONSOLE
            THEN <<[kind |-> "console", level |-> level]>> ELSE <<>>)

\* variant: the handlers are added without clearing the existing ones
setup_logger_appending(reg, n, c) ==
    [reg EXCEPT ![n] = [level |-> getattr_logging(c.LOG_LEVEL, LoggingInfo),
                        handlers |-> @.handlers \o NewHandlers(c)]]

\* TestLogger.setup_logger on the logger named n
setup_logger(reg, n, c) ==
    [reg EXCEPT ![n] = [level |-> getattr_logging(c.LOG_LEVEL, LoggingInfo),
                        handlers |-> NewHandlers(c)]]

\* the FileHandler opens the file in append mode
FileOpened(f) == [exists |-> TRUE, lines |-> IF f.exists THEN f.lines ELSE <<>>]

\* the logging state an operation works on
\* raised: an exception is on its way out; warned: a warning was printed
Current ==
    [log |-> log, file |-> logFile, loggers |-> loggers, dir |-> logDir,
     raised |-> FALSE, warned |-> FALSE]

\* TestLogger(name): getLogger(name) and setup_logger().  The handlers are
\* cleared and the level set first; log_dir.mkdir(exist_ok=True) then makes
\* a missing directory, and raises FileNotFoundError when the directory's
\* own parent is missing too
TestLogger(S, n, c) ==
    IF S.dir = "no_parent"
    THEN [S EXCEPT !.loggers[n] =
                        [level |-> getattr_logging(c.LOG_LEVEL, LoggingInfo),
                         handlers |-> <<>>],
                   !.raised = TRUE]
    ELSE [S EXCEPT !.loggers = setup_logger(@, n, c),
                   !.dir = "present",
                   !.file = IF c.LOG_TO_FILE THEN FileOpened(@) ELSE @]

\* logging: the parent of a logger in the dotted hierarchy, <<>> is the root
Parent(n) == SubSeq(n, 1, Len(n) - 1)

\* logging: Logger.getEffectiveLevel, the root logger is at WARNING
RECURSIVE EffectiveLevel(_, _)
EffectiveLevel(reg, n) ==
    IF n = <<>> THEN LevelNo("WARNING")
    ELSE IF n \in DOMAIN reg /\ reg[n].level # 0 THEN reg[n].level
    ELSE EffectiveLevel(reg, Parent(n))

\* logging: Logger.callHandlers, a record goes to the handlers of the logger
\* and, as propagate is left True, to those of every ancestor
RECURSIVE ChainHandlers(_, _)
ChainHandlers(reg, n) ==
    IF n = <<>> THEN <<>>
    ELSE (IF n \in DOMAIN reg THEN reg[n].handlers ELSE <<>>)
            \o ChainHandlers(reg, Parent(n))

\* how many lines one record logged through n at level l adds to the file
FileWrites(reg, n, l) ==
    IF l < EffectiveLevel(reg, n) THEN 0
    ELSE Cardinality({i \in DOMAIN ChainHandlers(reg, n) :
                        /\ ChainHandlers(reg, n)[i].kind = "file"
                        /\ l >= ChainHandlers(reg, n)[i].level})

\* logger.debug / info / error(rec) on the logger named n
Handle(S, n, rec) ==
    LET k == FileWrites(S.loggers, n, LevelNo(RecLevel(rec)))
    IN  [S EXCEPT !.log = Append(@, rec),
                  !.file = [exists |-> @.exists \/ k > 0,
                            lines |-> @.lines \o [i \in 1..k |-> rec]]]

RECURSIVE HandleAll(_, _, _)
HandleAll(S, n, recs) ==
    IF recs = <<>> THEN S
    ELSE HandleAll(Handle(S, n, Head(recs)), n, Tail(recs))

\* a static method of TestLogger: the logger is looked up, then written to
EmitS(S, n, recs, c) ==
    IF TestLogger(S, n, c).raised THEN TestLogger(S, n, c)
    ELSE HandleAll(TestLogger(S, n, c), n, recs)

Commit(S) ==
    /\ log' = S.log
    /\ logFile' = S.file
    /\ loggers' = S.loggers
    /\ logDir' = S.dir

Emit(n, recs) == Commit(EmitS(Current, n, recs, config))

\* TestLogger.clear_log_file: truncates an existing file, then logs through
\* TestLogger(); nothing is done for a file that does not exist.  fsOk: the
\* open(..., 'w') succeeds.  An exception inside the try block becomes a
\* printed warning
clear_log_file(S, c, fsOk) ==
    IF S.file.exists
    THEN IF fsOk
         THEN LET T == EmitS([S EXCEPT !.file = [exists |-> TRUE, lines |-> <<>>]],
                             UtilsLogger, <<[kind |-> "cleared"]>>, c)
              IN  [T EXCEPT !.raised = FALSE, !.warned = T.raised]
         ELSE [S EXCEPT !.warned = TRUE]
    ELSE S

\* TestLogger.log_test_start(test_name, test_class=..., test_file=...)
log_test_start(t) ==
    <<[kind |-> "start", test |-> t],
      [kind |-> "detail", test |-> t, key |-> "test_class"],
      [kind |-> "detail", test |-> t, key |-> "test_file"]>>

\* TestLogger.log_test_end(test_name, status, duration)
log_test_end(t, status, duration) ==
    <<[kind |-> "end", test |-> t, status |-> status, duration |-> duration,
       durationShown |-> (duration # 0),
       level |-> IF status \in {"PASSED", "SKIPPED"} THEN "INFO" ELSE "ERROR"]>>

\* TestLogger.log_browser_info(browser, device, headless)
log_browser_info(c) ==
    <<[kind |-> "browser_info", browser |-> c.BROWSER,
       device |-> IF c.DEVICE = "" THEN "Desktop" ELSE c.DEVICE,
       headless |-> c.HEADLESS]>>


(***************************************************************************)
(* Inputs.                                                                 *)
(***************************************************************************)
StringsUpTo(alphabet, n) == UNION {[1..k -> alphabet] : k \in 0..n}

RECURSIVE CaseVariants(_)
CaseVariants(w) ==
    IF w = <<>> THEN {<<>>}
    ELSE {<<c>> \o r : c \in {Head(w), UpperChar(Head(w))},
                       r \in CaseVariants(Tail(w))}

TimeoutAlphabet == {"0", "1", "7", "-", "+", " ", "_", "a"}

TimeoutTexts == StringsUpTo(TimeoutAlphabet, MaxStrLen)

HeadlessAlphabet == {"o", "n", "O", "N", "1", "0", " "}

HeadlessTexts ==
    StringsUpTo(HeadlessAlphabet, MaxStrLen)
        \cup CaseVariants(<<"t", "r", "u", "e">>)
        \cup CaseVariants(<<"y", "e", "s">>)
        \cup CaseVariants(<<"f", "a", "l", "s", "e">>)
        \cup CaseVariants(<<"o", "f", "f">>)
        \cup {<<"t", "r", "u", "e", " ">>, <<"y", "e", "s", "s">>, <<"t", "r", "u">>}

NoEnv ==
    [TIMEOUT |-> Unset, HEADLESS |-> Unset, BROWSER |-> Unset, DEVICE |-> Unset,
     LOG_LEVEL |-> Unset, LOG_TO_FILE |-> Unset, LOG_TO_CONSOLE |-> Unset]

\* environments for configuration resolution: TIMEOUT and HEADLESS are
\* resolved by independent expressions, so one of them varies at a time
ConfigEnvs ==
    {[NoEnv EXCEPT !.TIMEOUT = Str(t)] : t \in TimeoutTexts}
        \cup {[NoEnv EXCEPT !.HEADLESS = Str(h)] : h \in HeadlessTexts}
        \cup {NoEnv}

\* environments of the modelled test sessions
SessionEnvs ==
    {NoEnv,
     [NoEnv EXCEPT !.TIMEOUT = Str(<<"0">>), !.HEADLESS = Str(<<"n", "o">>),
                   !.BROWSER = Str("firefox"), !.DEVICE = Str("iPhone 12")],
     [NoEnv EXCEPT !.DEVICE = Str("iPad")]}

LogFiles ==
    {[exists |-> FALSE, lines |-> <<>>],
     [exists |-> TRUE, lines |-> <<>>],
     [exists |-> TRUE, lines |-> <<[kind |-> "old"]>>]}

(***************************************************************************)
(* Initial state: the interpreter has started, nothing is imported.        *)
(***************************************************************************)
InitProcess ==
    /\ config = [raised |-> FALSE, TIMEOUT |-> 0, HEADLESS |-> FALSE,
                 BROWSER |-> "", DEVICE |-> "", LOG_LEVEL |-> <<>>,
                 LOG_TO_FILE |-> FALSE, LOG_TO_CONSOLE |-> FALSE]
    /\ pc = "import"
    /\ test = 0
    /\ idx = 1
    /\ cache = [f \in SessionScoped |-> [state |-> "unset", value |-> 0]]
    /\ sessStack = <<>>
    /\ fnStack = <<>>
    /\ item = NoReports
    /\ engine = "none"
    /\ browsers = <<>>
    /\ contexts = <<>>
    /\ pages = <<>>
    /\ attempts = [engine |-> 0, launch |-> 0,
                   new_context |-> [t \in 1..NumTests |-> 0],
                   new_page |-> [t \in 1..NumTests |-> 0]]
    /\ bodyResult = [t \in 1..NumTests |-> "none"]
    /\ now = 0
    /\ start_time = 0
    /\ log = <<>>
    /\ loggers = NoLoggers

\* no logger operation has been performed by a caller
LoggerIdle ==
    /\ held = {}
    /\ ops = 0
    /\ sinceClear = -1
    /\ lastEvent = [logger |-> <<>>, level |-> 0, lines |-> 0]
    /\ lastClear = [outcome |-> "none", existed |-> FALSE, fsOk |-> TRUE,
                    warned |-> FALSE]

\* test_runner.py is not running
RunnerIdle ==
    /\ argv = <<>>
    /\ allureCli = FALSE
    /\ rpc = "none"
    /\ command = <<>>
    /\ childEnv = NoEnv
    /\ returncode = Unset
    /\ exitCode = -1

\* the run is not a parallel one
WorkersIdle == workers = <<>>

\* no page object exists
PageIdle ==
    /\ world = [url |-> "blank", visible |-> <<>>]
    /\ lastOp = [op |-> "none", target |-> "", driver |-> "none",
                 outcome |-> "none", value |-> FALSE, records |-> <<>>]

Init ==
    /\ InitProcess
    /\ WorkersIdle
    /\ env \in SessionEnvs
    /\ logFile \in LogFiles
    /\ logDir = "present"
    /\ LoggerIdle
    /\ RunnerIdle
    /\ PageIdle

InitConfig ==
    /\ InitProcess
    /\ WorkersIdle
    /\ env \in ConfigEnvs
    /\ logFile = [exists |-> FALSE, lines |-> <<>>]
    /\ logDir = "present"
    /\ LoggerIdle
    /\ RunnerIdle
    /\ PageIdle

(***************************************************************************)
(* config.py is imported (conftest.py line 3): the class body runs once.   *)
(***************************************************************************)
LoadConfig ==
    /\ pc = "import"
    /\ config' = Config(env)
    /\ pc' = IF Config(env).raised THEN "import_error" ELSE "idle"
    /\ UNCHANGED <<loggerVars, runnerVars, pageVars, workerVars>>
    /\ UNCHANGED <<env, test, idx, cache, sessStack, fnStack, item, driverVars,
                   bodyResult, now, start_time, logVars>>


(***************************************************************************)
(* pytest's run of one test item: setup phase, call phase, teardown phase. *)
(***************************************************************************)
\* the next collected item starts its setup phase
pytest_runtest_protocol ==
    /\ pc = "idle"
    /\ test < NumTests
    /\ test' = test + 1
    /\ pc' = "setup"
    /\ idx' = 1
    /\ item' = NoReports
    /\ UNCHANGED <<loggerVars, runnerVars, pageVars, workerVars>>
    /\ UNCHANGED <<env, config, cache, sessStack, fnStack, driverVars, bodyResult,
                   now, start_time, logVars>>

\* a session-scoped fixture that was executed for an earlier item is not
\* executed again: its cached value is returned, its cached exception raised
CachedFixture ==
    /\ pc = "setup"
    /\ FixtureOrder[idx] \in SessionScoped
    /\ cache[FixtureOrder[idx]].state # "unset"
    /\ IF cache[FixtureOrder[idx]].state = "ok" THEN FixtureReady ELSE FixtureRaised
    /\ UNCHANGED <<loggerVars, runnerVars, pageVars, workerVars>>
    /\ UNCHANGED <<env, config, test, cache, sessStack, fnStack, driverVars,
                   bodyResult, now, start_time, logVars>>

Cached(name, state, value) ==
    cache' = [cache EXCEPT ![name] = [state |-> state, value |-> value]]

(***************************************************************************)
(* conftest.py: setup_logging (session, autouse).                          *)
(***************************************************************************)
\* setup_logging up to its yield: the log file is cleared, the session
\* banner and the browser summary are logged
SessionStart(S, c) ==
    LET cleared == clear_log_file(S, c, TRUE)
        started == EmitS(cleared, UtilsLogger,
                         <<[kind |-> "banner"], [kind |-> "session_start"],
                           [kind |-> "banner"]>>, c)
    IN  EmitS(started, get_test_logger("None"), log_browser_info(c), c)

\* setup_logging after its yield, on the logger obtained before it
SessionEnd(S) ==
    HandleAll(S, UtilsLogger,
              <<[kind |-> "banner"], [kind |-> "session_end"],
                [kind |-> "banner"]>>)

setup_logging_setup ==
    /\ AtFixture("setup_logging")
    /\ Commit(SessionStart(Current, config))
    /\ Cached("setup_logging", "ok", 0)
    /\ sessStack' = Append(sessStack, Finalizer("setup_logging", 0))
    /\ FixtureReady
    /\ UNCHANGED <<loggerVars, runnerVars, pageVars, workerVars>>
    /\ UNCHANGED <<env, config, test, fnStack, driverVars, bodyResult, now,
                   start_time>>

setup_logging_teardown ==
    /\ pc = "session_teardown"
    /\ AtFinalizer(sessStack, "setup_logging")
    /\ Commit(SessionEnd(Current))
    /\ sessStack' = Pop(sessStack)
    /\ UNCHANGED <<loggerVars, runnerVars, pageVars, workerVars>>
    /\ UNCHANGED <<env, config, pc, test, idx, cache, fnStack, item, driverVars,
                   bodyResult, now, start_time>>

(***************************************************************************)
(* conftest.py: playwright, browser_type, browser (session).               *)
(***************************************************************************)
\* with sync_playwright() as p: yield p
playwright_setup ==
    /\ AtFixture("playwright")
    /\ attempts' = [attempts EXCEPT !.engine = @ + 1]
    /\ \/ /\ engine' = "held"
          /\ Cached("playwright", "ok", 0)
          /\ sessStack' = Append(sessStack, Finalizer("playwright", 0))
          /\ FixtureReady
       \/ /\ Cached("playwright", "failed", 0)
          /\ FixtureRaised
          /\ UNCHANGED <<engine, sessStack>>
    /\ UNCHANGED <<loggerVars, runnerVars, pageVars, workerVars>>
    /\ UNCHANGED <<env, config, test, fnStack, browsers, contexts, pages,
                   bodyResult, now, start_time, logVars>>

playwright_teardown ==
    /\ pc = "session_teardown"
    /\ AtFinalizer(sessStack, "playwright")
    /\ engine' = "released"
    /\ sessStack' = Pop(sessStack)
    /\ UNCHANGED <<loggerVars, runnerVars, pageVars, workerVars>>
    /\ UNCHANGED <<env, config, pc, test, idx, cache, fnStack, item, browsers,
                   contexts, pages, attempts, bodyResult, now, start_time, logVars>>

\* the value the browser_type fixture returns
browser_type(c) ==
    IF c.BROWSER = "firefox" THEN "firefox"
    ELSE IF c.BROWSER = "webkit" THEN "webkit"
    ELSE "chromium"

browser_type_setup ==
    /\ AtFixture("browser_type")
    /\ Cached("browser_type", "ok", 0)
    /\ FixtureReady
    /\ UNCHANGED <<loggerVars, runnerVars, pageVars, workerVars>>
    /\ UNCHANGED <<env, config, test, sessStack, fnStack, driverVars, bodyResult,
                   now, start_time, logVars>>

\* variant: a failed launch is not remembered, so the next test that
\* requests the browser launches again
browser_setup_relaunching ==
    /\ AtFixture("browser")
    /\ attempts' = [attempts EXCEPT !.launch = @ + 1]
    /\ \/ /\ LET b == [id |-> Len(browsers) + 1,
                       type |-> browser_type(config),
                       headless |-> config.HEADLESS,
                       slow_mo |-> IF ~config.HEADLESS THEN 50 ELSE 0,
                       state |-> "open"]
             IN  /\ browsers' = Append(browsers, b)
                 /\ Cached("browser", "ok", b.id)
                 /\ sessStack' = Append(sessStack, Finalizer("browser", b.id))
          /\ FixtureReady
       \/ /\ FixtureRaised
          /\ UNCHANGED <<browsers, sessStack, cache>>
    /\ UNCHANGED <<loggerVars, runnerVars, pageVars, workerVars>>
    /\ UNCHANGED <<env, config, test, fnStack, engine, contexts, pages, bodyResult,
                   now, start_time, logVars>>

\* browser_type.launch(headless=..., slow_mo=...); yield browser
browser_setup ==
    /\ AtFixture("browser")
    /\ attempts' = [attempts EXCEPT !.launch = @ + 1]
    /\ \/ /\ LET b == [id |-> Len(browsers) + 1,
                       type |-> browser_type(config),
                       headless |-> config.HEADLESS,
                       slow_mo |-> IF ~config.HEADLESS THEN 50 ELSE 0,
                       state |-> "open"]
             IN  /\ browsers' = Append(browsers, b)
                 /\ Cached("browser", "ok", b.id)
                 /\ sessStack' = Append(sessStack, Finalizer("browser", b.id))
          /\ FixtureReady
       \/ /\ Cached("browser", "failed", 0)
          /\ FixtureRaised
          /\ UNCHANGED <<browsers, sessStack>>
    /\ UNCHANGED <<loggerVars, runnerVars, pageVars, workerVars>>
    /\ UNCHANGED <<env, config, test, fnStack, engine, contexts, pages, bodyResult,
                   now, start_time, logVars>>

\* closing a browser closes what is still open in it
BrowserClosed(id) ==
    /\ browsers' = [browsers EXCEPT ![id].state = "closed"]
    /\ contexts' = [i \in DOMAIN contexts |->
                      IF contexts[i].browser = id
                      THEN [contexts[i] EXCEPT !.state = "closed"]
                      ELSE contexts[i]]
    /\ pages' = [i \in DOMAIN pages |->
                   IF contexts[pages[i].context].browser = id
                   THEN [pages[i] EXCEPT !.state = "closed"]
                   ELSE pages[i]]

\* browser.close()
browser_teardown ==
    /\ pc = "session_teardown"
    /\ AtFinalizer(sessStack, "browser")
    /\ BrowserClosed(Top(sessStack).value)
    /\ sessStack' = Pop(sessStack)
    /\ UNCHANGED <<loggerVars, runnerVars, pageVars, workerVars>>
    /\ UNCHANGED <<env, config, pc, test, idx, cache, fnStack, item, engine,
                   attempts, bodyResult, now, start_time, logVars>>


(***************************************************************************)
(* conftest.py: log_test_execution (function, autouse).                    *)
(***************************************************************************)
log_test_execution_setup ==
    /\ AtFixture("log_test_execution")
    /\ Emit(get_test_logger(NodeName(test)), log_test_start(test))
    /\ start_time' = now
    /\ fnStack' = Append(fnStack, Finalizer("log_test_execution", test))
    /\ FixtureReady
    /\ UNCHANGED <<loggerVars, runnerVars, pageVars, workerVars>>
    /\ UNCHANGED <<env, config, test, cache, sessStack, driverVars, bodyResult, now>>

\* "Determine test outcome"
Status(it) ==
    IF it.call # "none"
    THEN IF it.call = "passed" THEN "PASSED"
         ELSE IF it.call = "failed" THEN "FAILED"
         ELSE IF it.call = "skipped" THEN "SKIPPED"
         ELSE "ERROR"
    ELSE "UNKNOWN"

\* duration = time.time() - start_time
Duration(t, start) == t - start

\* variant: the end record written by a plain statement after the test,
\* reached only when the test function did not raise
log_test_execution_teardown_plain ==
    /\ pc = "teardown"
    /\ AtFinalizer(fnStack, "log_test_execution")
    /\ IF item.call = "failed"
       THEN UNCHANGED logVars
       ELSE Emit(get_test_logger(NodeName(Top(fnStack).value)),
                 log_test_end(Top(fnStack).value, Status(item),
                              Duration(now, start_time)))
    /\ fnStack' = Pop(fnStack)
    /\ UNCHANGED <<loggerVars, runnerVars, pageVars, workerVars>>
    /\ UNCHANGED <<env, config, pc, test, idx, cache, sessStack, item, driverVars,
                   bodyResult, now, start_time>>

log_test_execution_teardown ==
    /\ pc = "teardown"
    /\ AtFinalizer(fnStack, "log_test_execution")
    /\ Emit(get_test_logger(NodeName(Top(fnStack).value)),
            log_test_end(Top(fnStack).value, Status(item),
                         Duration(now, start_time)))
    /\ fnStack' = Pop(fnStack)
    /\ UNCHANGED <<loggerVars, runnerVars, pageVars, workerVars>>
    /\ UNCHANGED <<env, config, pc, test, idx, cache, sessStack, item, driverVars,
                   bodyResult, now, start_time>>

(***************************************************************************)
(* conftest.py: setup_test_environment (function, autouse): os.makedirs    *)
(* with exist_ok=True; nothing to undo.                                    *)
(***************************************************************************)
setup_test_environment_setup ==
    /\ AtFixture("setup_test_environment")
    /\ fnStack' = Append(fnStack, Finalizer("setup_test_environment", 0))
    /\ FixtureReady
    /\ UNCHANGED <<loggerVars, runnerVars, pageVars, workerVars>>
    /\ UNCHANGED <<env, config, test, cache, sessStack, driverVars, bodyResult, now,
                   start_time, logVars>>

setup_test_environment_teardown ==
    /\ pc = "teardown"
    /\ AtFinalizer(fnStack, "setup_test_environment")
    /\ fnStack' = Pop(fnStack)
    /\ UNCHANGED <<loggerVars, runnerVars, pageVars, workerVars>>
    /\ UNCHANGED <<env, config, pc, test, idx, cache, sessStack, item, driverVars,
                   bodyResult, now, start_time, logVars>>

(***************************************************************************)
(* conftest.py: context (function).                                        *)
(***************************************************************************)
\* playwright.devices: the driver's registry of device descriptors
PlaywrightDevices ==
    [d \in {"iPhone 12", "Pixel 5"} |->
        IF d = "iPhone 12" THEN [width |-> 390, height |-> 664]
        ELSE [width |-> 393, height |-> 727]]

\* context_options, after the device descriptor (if any) is merged in
ContextOptions(c) ==
    LET default == [viewport |-> [width |-> 1920, height |-> 1080],
                    ignore_https_errors |-> TRUE]
    IN  IF /\ c.DEVICE # ""
           /\ c.DEVICE \in DOMAIN DEVICES
           /\ DEVICES[c.DEVICE] # "None"
           /\ DEVICES[c.DEVICE] \in DOMAIN PlaywrightDevices
        THEN [default EXCEPT !.viewport = PlaywrightDevices[DEVICES[c.DEVICE]]]
        ELSE default

\* variant: a failed browser.new_context is tried a second time
context_setup_retrying ==
    /\ AtFixture("context")
    /\ attempts' = [attempts EXCEPT !.new_context[test] = @ + 1]
    /\ \/ /\ LET c == [id |-> Len(contexts) + 1,
                       test |-> test,
                       browser |-> cache["browser"].value,
                       viewport |-> ContextOptions(config).viewport,
                       state |-> "open"]
             IN  /\ contexts' = Append(contexts, c)
                 /\ fnStack' = Append(fnStack, Finalizer("context", c.id))
          /\ FixtureReady
       \/ /\ attempts.new_context[test] = 0
          /\ UNCHANGED <<pc, idx, item, contexts, fnStack>>
       \/ /\ attempts.new_context[test] > 0
          /\ FixtureRaised
          /\ UNCHANGED <<contexts, fnStack>>
    /\ UNCHANGED <<loggerVars, runnerVars, pageVars, workerVars>>
    /\ UNCHANGED <<env, config, test, cache, sessStack, engine, browsers, pages,
                   bodyResult, now, start_time, logVars>>

\* browser.new_context(**context_options); yield context
context_setup ==
    /\ AtFixture("context")
    /\ attempts' = [attempts EXCEPT !.new_context[test] = @ + 1]
    /\ \/ /\ LET c == [id |-> Len(contexts) + 1,
                       test |-> test,
                       browser |-> cache["browser"].value,
                       viewport |-> ContextOptions(config).viewport,
                       state |-> "open"]
             IN  /\ contexts' = Append(contexts, c)
                 /\ fnStack' = Append(fnStack, Finalizer("context", c.id))
          /\ FixtureReady
       \/ /\ FixtureRaised
          /\ UNCHANGED <<contexts, fnStack>>
    /\ UNCHANGED <<loggerVars, runnerVars, pageVars, workerVars>>
    /\ UNCHANGED <<env, config, test, cache, sessStack, engine, browsers, pages,
                   bodyResult, now, start_time, logVars>>

\* variant: the context fixture without its context.close()
ContextLeftOpen(id) == UNCHANGED <<contexts, pages>>

\* closing a context closes the pages still open in it
ContextClosed(id) ==
    /\ contexts' = [contexts EXCEPT ![id].state = "closed"]
    /\ pages' = [i \in DOMAIN pages |->
                   IF pages[i].context = id
                   THEN [pages[i] EXCEPT !.state = "closed"]
                   ELSE pages[i]]

\* variant: context.close() as a plain statement after the test, reached
\* only when the test function returned normally
context_teardown_on_success ==
    /\ pc = "teardown"
    /\ AtFinalizer(fnStack, "context")
    /\ IF item.call = "passed"
       THEN ContextClosed(Top(fnStack).value)
       ELSE UNCHANGED <<contexts, pages>>
    /\ fnStack' = Pop(fnStack)
    /\ UNCHANGED <<loggerVars, runnerVars, pageVars, workerVars>>
    /\ UNCHANGED <<env, config, pc, test, idx, cache, sessStack, item, engine,
                   browsers, attempts, bodyResult, now, start_time, logVars>>

\* context.close()
context_teardown ==
    /\ pc = "teardown"
    /\ AtFinalizer(fnStack, "context")
    /\ ContextClosed(Top(fnStack).value)
    /\ fnStack' = Pop(fnStack)
    /\ UNCHANGED <<loggerVars, runnerVars, pageVars, workerVars>>
    /\ UNCHANGED <<env, config, pc, test, idx, cache, sessStack, item, engine,
                   browsers, attempts, bodyResult, now, start_time, logVars>>

(***************************************************************************)
(* conftest.py: page (function).                                           *)
(***************************************************************************)
\* context.new_page(); page.set_default_timeout(config.TIMEOUT); yield page
page_setup ==
    /\ AtFixture("page")
    /\ attempts' = [attempts EXCEPT !.new_page[test] = @ + 1]
    /\ \/ /\ LET p == [id |-> Len(pages) + 1,
                       test |-> test,
                       context |-> Top(fnStack).value,
                       timeout |-> config.TIMEOUT,
                       state |-> "open"]
             IN  /\ pages' = Append(pages, p)
                 /\ fnStack' = Append(fnStack, Finalizer("page", p.id))
          /\ FixtureReady
       \/ /\ FixtureRaised
          /\ UNCHANGED <<pages, fnStack>>
    /\ UNCHANGED <<loggerVars, runnerVars, pageVars, workerVars>>
    /\ UNCHANGED <<env, config, test, cache, sessStack, engine, browsers,
                   contexts, bodyResult, now, start_time, logVars>>

\* variant: the page fixture without its page.close()
PageLeftOpen(id) == pages' = pages

PageClosed(id) == pages' = [pages EXCEPT ![id].state = "closed"]

\* page.close()
page_teardown ==
    /\ pc = "teardown"
    /\ AtFinalizer(fnStack, "page")
    /\ PageClosed(Top(fnStack).value)
    /\ fnStack' = Pop(fnStack)
    /\ UNCHANGED <<loggerVars, runnerVars, pageVars, workerVars>>
    /\ UNCHANGED <<env, config, pc, test, idx, cache, sessStack, item, engine,
                   browsers, contexts, attempts, bodyResult, now, start_time, logVars>>

(***************************************************************************)
(* The call phase: the test function runs with the page; it returns,       *)
(* raises, or skips.  time.time() advances while it runs.                  *)
(***************************************************************************)
BodyOutcomes == {"passed", "failed", "skipped"}

pytest_runtest_call ==
    /\ pc = "call"
    /\ \E outcome \in BodyOutcomes, tick \in 0..MaxTick :
          /\ item' = pytest_runtest_makereport(item, "call", outcome)
          /\ bodyResult' = [bodyResult EXCEPT ![test] = outcome]
          /\ now' = now + tick
    /\ pc' = "teardown"
    /\ UNCHANGED <<loggerVars, runnerVars, pageVars, workerVars>>
    /\ UNCHANGED <<env, config, test, idx, cache, sessStack, fnStack, driverVars,
                   start_time, logVars>>

\* every finalizer of the item has run: the item is done; after the last
\* item the session-scoped fixtures are torn down
pytest_runtest_teardown ==
    /\ pc = "teardown"
    /\ fnStack = <<>>
    /\ item' = pytest_runtest_makereport(item, "teardown", "passed")
    /\ pc' = IF test = NumTests THEN "session_teardown" ELSE "idle"
    /\ UNCHANGED <<loggerVars, runnerVars, pageVars, workerVars>>
    /\ UNCHANGED <<env, config, test, idx, cache, sessStack, fnStack, driverVars,
                   bodyResult, now, start_time, logVars>>

pytest_sessionfinish ==
    /\ pc = "session_teardown"
    /\ sessStack = <<>>
    /\ pc' = "done"
    /\ UNCHANGED <<loggerVars, runnerVars, pageVars, workerVars>>
    /\ UNCHANGED <<env, config, test, idx, cache, sessStack, fnStack, item,
                   driverVars, bodyResult, now, start_time, logVars>>

(***************************************************************************)
(* Specifications.                                                         *)
(***************************************************************************)
Next ==
    \/ LoadConfig
    \/ pytest_runtest_protocol
    \/ CachedFixture
    \/ setup_logging_setup
    \/ playwright_setup
    \/ browser_type_setup
    \/ browser_setup
    \/ log_test_execution_setup
    \/ setup_test_environment_setup
    \/ context_setup
    \/ page_setup
    \/ pytest_runtest_call
    \/ page_teardown
    \/ context_teardown
    \/ setup_test_environment_teardown
    \/ log_test_execution_teardown
    \/ pytest_runtest_teardown
    \/ browser_teardown
    \/ playwright_teardown
    \/ setup_logging_teardown
    \/ pytest_sessionfinish

\* a test session of one process
Spec == Init /\ [][Next]_vars

\* configuration resolution alone, over the enumerated environment texts
SpecConfig == InitConfig /\ [][LoadConfig]_vars


(***************************************************************************)
(* utils/logger.py used by arbitrary callers: loggers are looked up by     *)
(* name, written to through the handle a lookup returned, and the log file *)
(* is cleared, in any order.                                               *)
(***************************************************************************)
\* most logger operations in one behaviour
MaxLoggerOps == 3

\* logging settings: each of the three varies, and all three together
LoggerEnvs ==
    {NoEnv,
     [NoEnv EXCEPT !.LOG_TO_FILE = Str(<<"f", "a", "l", "s", "e">>)],
     [NoEnv EXCEPT !.LOG_TO_FILE = Str(<<"T", "R", "U", "E">>),
                   !.LOG_TO_CONSOLE = Str(<<"n", "o">>)],
     [NoEnv EXCEPT !.LOG_TO_CONSOLE = Str(<<"0">>),
                   !.LOG_TO_FILE = Str(<<"o", "f", "f">>)],
     [NoEnv EXCEPT !.LOG_LEVEL = Str(<<"d", "e", "b", "u", "g">>)],
     [NoEnv EXCEPT !.LOG_LEVEL = Str(<<"W", "a", "r", "n", "i", "n", "g">>)],
     [NoEnv EXCEPT !.LOG_LEVEL = Str(<<"v", "e", "r", "b", "o", "s", "e">>),
                   !.LOG_TO_FILE = Str(<<"1">>)]}

\* the names callers look up: the module logger, "test" and two "test.<name>"
LookupNames ==
    {UtilsLogger, get_test_logger("None"), get_test_logger(NodeName(1)),
     get_test_logger("LoginPage")}

\* the directory of the log path: present, missing, or missing together
\* with its own parent; a file that exists has its directory
LogDirs(f) == IF f.exists THEN {"present"} ELSE {"present", "absent", "no_parent"}

InitLogger ==
    /\ InitProcess
    /\ WorkersIdle
    /\ env \in LoggerEnvs
    /\ logFile \in LogFiles
    /\ logDir \in LogDirs(logFile)
    /\ LoggerIdle
    /\ RunnerIdle
    /\ PageIdle

\* TestLogger(name).get_logger(), TestLogger.get_test_logger(test_name)
get_logger(n) ==
    /\ pc = "idle"
    /\ ops < MaxLoggerOps
    /\ Commit(TestLogger(Current, n, config))
    /\ held' = IF TestLogger(Current, n, config).raised THEN held
               ELSE held \cup {n}
    /\ ops' = ops + 1
    /\ UNCHANGED <<sinceClear, lastEvent, lastClear>>
    /\ UNCHANGED <<env, config, pc, sessionVars, runnerVars, pageVars, workerVars>>

\* one logger.debug / info / error call on a logger obtained earlier
logger_write(n, l) ==
    /\ pc = "idle"
    /\ ops < MaxLoggerOps
    /\ n \in held
    /\ LET S == Handle(Current, n, [kind |-> "event", level |-> l])
       IN  /\ Commit(S)
           /\ lastEvent' = [logger |-> n, level |-> LevelNo(l),
                            lines |-> Len(S.file.lines) - Len(logFile.lines)]
    /\ sinceClear' = IF sinceClear < 0 THEN sinceClear ELSE sinceClear + 1
    /\ ops' = ops + 1
    /\ UNCHANGED <<held, lastClear>>
    /\ UNCHANGED <<env, config, pc, sessionVars, runnerVars, pageVars, workerVars>>

\* TestLogger.clear_log_file(); the filesystem lets the file be opened for
\* writing or not
clear_log_file_call ==
    /\ pc = "idle"
    /\ ops < MaxLoggerOps
    /\ \E fsOk \in BOOLEAN :
         LET S == clear_log_file(Current, config, fsOk)
         IN  /\ Commit(S)
             /\ lastClear' = [outcome |-> IF S.raised THEN "raised"
                                          ELSE "returned",
                              existed |-> logFile.exists,
                              fsOk |-> fsOk,
                              warned |-> S.warned]
    /\ sinceClear' = 0
    /\ ops' = ops + 1
    /\ UNCHANGED <<held, lastEvent>>
    /\ UNCHANGED <<env, config, pc, sessionVars, runnerVars, pageVars, workerVars>>

NextLogger ==
    \/ LoadConfig
    \/ \E n \in LookupNames : get_logger(n)
    \/ \E n \in LookupNames, l \in {"DEBUG", "INFO", "ERROR"} : logger_write(n, l)
    \/ clear_log_file_call

SpecLogger == InitLogger /\ [][NextLogger]_vars


(***************************************************************************)
(* A parallel run (pytest -n): every worker is a pytest process of its own *)
(* with its own logger registry; each runs the session fixture             *)
(* setup_logging when its first item is set up and the hook                *)
(* log_test_execution around its item, and all of them write to the one    *)
(* file at Config.LOG_FILE_PATH.  Worker w runs the item with index w; the *)
(* browser fixtures are left out.                                          *)
(***************************************************************************)
\* number of worker processes
NumWorkers == 2

Workers == 1..NumWorkers

InitWorkers ==
    /\ InitProcess
    /\ LoggerIdle
    /\ RunnerIdle
    /\ PageIdle
    /\ env \in SessionEnvs
    /\ logFile \in LogFiles
    /\ logDir = "present"
    /\ workers = [w \in Workers |->
                    [pc |-> "start", log |-> <<>>, loggers |-> NoLoggers]]

\* the logging state worker w works on: its own registry, the shared file
WorkerState(w) ==
    [log |-> workers[w].log, file |-> logFile, loggers |-> workers[w].loggers,
     dir |-> logDir, raised |-> FALSE, warned |-> FALSE]

WorkerCommit(w, S, next) ==
    /\ workers' = [workers EXCEPT
                     ![w] = [pc |-> next, log |-> S.log, loggers |-> S.loggers]]
    /\ logFile' = S.file
    /\ logDir' = S.dir
    /\ UNCHANGED <<log, loggers>>
    /\ UNCHANGED <<env, config, pc, sessionVars, loggerVars, runnerVars, pageVars>>

\* setup_logging up to its yield, in worker w
worker_setup_logging(w) ==
    /\ pc = "idle"
    /\ workers[w].pc = "start"
    /\ WorkerCommit(w, SessionStart(WorkerState(w), config), "session")

\* log_test_execution up to its yield, in worker w
worker_log_test_start(w) ==
    /\ pc = "idle"
    /\ workers[w].pc = "session"
    /\ WorkerCommit(w, EmitS(WorkerState(w), get_test_logger(NodeName(w)),
                             log_test_start(w), config), "in_test")

\* log_test_execution after its yield, in worker w
worker_log_test_end(w) ==
    /\ pc = "idle"
    /\ workers[w].pc = "in_test"
    /\ \E status \in {"PASSED", "FAILED"} :
         WorkerCommit(w, EmitS(WorkerState(w), get_test_logger(NodeName(w)),
                               log_test_end(w, status, 0), config), "tested")

\* setup_logging after its yield, in worker w
worker_teardown_logging(w) ==
    /\ pc = "idle"
    /\ workers[w].pc = "tested"
    /\ WorkerCommit(w, SessionEnd(WorkerState(w)), "done")

NextWorkers ==
    \/ LoadConfig
    \/ \E w \in Workers : worker_setup_logging(w)
    \/ \E w \in Workers : worker_log_test_start(w)
    \/ \E w \in Workers : worker_log_test_end(w)
    \/ \E w \in Workers : worker_teardown_logging(w)

SpecWorkers == InitWorkers /\ [][NextWorkers]_vars


(***************************************************************************)
(* Properties.                                                             *)
(***************************************************************************)
OpenContexts == {i \in DOMAIN contexts : contexts[i].state = "open"}
OpenPages == {i \in DOMAIN pages : pages[i].state = "open"}
OpenBrowsers == {i \in DOMAIN browsers : browsers[i].state = "open"}

\* the item's setup, call and teardown phases are over
Finished(t) == t < test \/ (t = test /\ pc \in {"idle", "session_teardown", "done"})

ContextsOf(t) == {i \in DOMAIN contexts : contexts[i].test = t}
PagesOf(t) == {i \in DOMAIN pages : pages[i].test = t}

\* a resource is open only inside the resource that owns it
ResourceNesting ==
    /\ OpenBrowsers # {} => engine = "held"
    /\ \A c \in OpenContexts : contexts[c].browser \in OpenBrowsers
    /\ \A p \in OpenPages : pages[p].context \in OpenContexts

\* a step that acquires a resource finds its owner acquired
AcquireOrder ==
    /\ Len(browsers') > Len(browsers) => engine = "held"
    /\ Len(contexts') > Len(contexts) =>
          contexts'[Len(contexts')].browser \in OpenBrowsers
    /\ Len(pages') > Len(pages) => pages'[Len(pages')].context \in OpenContexts

\* a step that releases a resource finds everything it owns released
ReleaseOrder ==
    /\ \A c \in OpenContexts :
          contexts'[c].state = "closed" =>
              \A p \in OpenPages : pages[p].context # c
    /\ \A b \in OpenBrowsers :
          browsers'[b].state = "closed" =>
              \A c \in OpenContexts : contexts[c].browser # b
    /\ (engine = "held" /\ engine' = "released") => OpenBrowsers = {}
    /\ engine = "released" => engine' = "released"

\* C1: resources are acquired in the order engine, browser, context, page
\* and released in the reverse order: a browser is open only while the
\* engine is held, a context only while its browser is open, a page only
\* while its context is open; a page is closed by a step before the one
\* closing its context, every context before the browser, the browser
\* before the engine is released.
C1_AcquireReleaseOrder ==
    /\ []ResourceNesting
    /\ [][AcquireOrder /\ ReleaseOrder]_vars

\* a session that held all four resources and has released them all
C1_Witness ==
    /\ pc = "done"
    /\ engine = "released"
    /\ Len(browsers) = 1 /\ OpenBrowsers = {}
    /\ Len(contexts) = NumTests /\ OpenContexts = {}
    /\ Len(pages) = NumTests /\ OpenPages = {}

\* C2: a context acquired for a test is closed when that test's teardown
\* is over, hence before the next test starts and before the session-scoped
\* resources are released, whether the test function returned, raised or
\* skipped, or the page acquisition after the context acquisition failed.
C2_ContextClosedAfterTest ==
    \A c \in DOMAIN contexts :
        Finished(contexts[c].test) => contexts[c].state = "closed"

\* the first test's page acquisition failed, the second test's function
\* raised, the third's skipped; each had a context and each is closed
C2_Witness ==
    /\ NumTests >= 3
    /\ Finished(3)
    /\ pc = "session_teardown" /\ OpenBrowsers # {}
    /\ ContextsOf(1) # {} /\ PagesOf(1) = {} /\ attempts.new_page[1] = 1
    /\ ContextsOf(2) # {} /\ bodyResult[2] = "failed"
    /\ ContextsOf(3) # {} /\ bodyResult[3] = "skipped"
    /\ OpenContexts = {}

\* C3: at most one context and at most one page are open at any time, and
\* an open context or page was acquired for the test that is running.
C3_OneContextOnePage ==
    /\ Cardinality(OpenContexts) <= 1
    /\ Cardinality(OpenPages) <= 1
    /\ \A c \in OpenContexts :
          contexts[c].test = test /\ pc \in {"setup", "call", "teardown"}
    /\ \A p \in OpenPages :
          pages[p].test = test /\ pc \in {"setup", "call", "teardown"}

\* a later test runs with its own context and page while the contexts of
\* the earlier tests exist and are closed
C3_Witness ==
    /\ test >= 2
    /\ pc = "call"
    /\ Len(contexts) >= 2
    /\ OpenContexts = ContextsOf(test) /\ Cardinality(OpenContexts) = 1
    /\ OpenPages = PagesOf(test) /\ Cardinality(OpenPages) = 1


\* the browser the session-scoped browser fixture holds
SessionBrowser == cache["browser"].value

\* C4: browser launch is attempted at most once in a session.  After a
\* successful launch every context of the session is created in that one
\* browser.  After a failed launch the failure is raised in the setup phase
\* of every test, the launch is not repeated, no context is requested and
\* no test function is called.
C4_LaunchOnce ==
    /\ attempts.launch <= 1
    /\ Len(browsers) <= 1
    /\ \A c \in DOMAIN contexts :
          cache["browser"].state = "ok" /\ contexts[c].browser = SessionBrowser
    /\ cache["browser"].state = "failed" =>
          /\ browsers = <<>> /\ contexts = <<>> /\ pages = <<>>
          /\ \A t \in 1..NumTests :
                /\ attempts.new_context[t] = 0
                /\ bodyResult[t] = "none"
          /\ pc \in {"teardown", "idle"} => item.setup = "failed"

\* the launch failed and every test of the session has been through
C4_Witness ==
    /\ cache["browser"].state = "failed"
    /\ attempts.launch = 1
    /\ test = NumTests
    /\ pc = "done"

\* the acquisition of the test's context or page was attempted and failed
ContextFailed(t) == attempts.new_context[t] > 0 /\ ContextsOf(t) = {}
PageFailed(t) == attempts.new_page[t] > 0 /\ PagesOf(t) = {}
AcquisitionFailed(t) == ContextFailed(t) \/ PageFailed(t)

\* C5: a failed context or page acquisition aborts that test only.  The
\* call is made once per test; the test function is not called; a context
\* acquired before the page failed is closed when the test is over; the
\* session's browser is still open for the tests that follow; and every
\* test that has been through its setup after a successful launch made its
\* own new_context call, a test that ran having exactly one context and one
\* page of its own, created in the session's browser.
C5_AcquisitionFailureIsLocal ==
    \A t \in 1..NumTests :
        /\ attempts.new_context[t] <= 1
        /\ attempts.new_page[t] <= 1
        /\ AcquisitionFailed(t) =>
              /\ bodyResult[t] = "none"
              /\ Finished(t) => \A c \in ContextsOf(t) : contexts[c].state = "closed"
              /\ pc \in {"setup", "call", "teardown", "idle"} =>
                    SessionBrowser \in OpenBrowsers
        /\ (cache["browser"].state = "ok" /\ Finished(t)) =>
              attempts.new_context[t] = 1
        /\ bodyResult[t] # "none" =>
              /\ Cardinality(ContextsOf(t)) = 1
              /\ Cardinality(PagesOf(t)) = 1
              /\ \A c \in ContextsOf(t) :
                    /\ contexts[c].browser = SessionBrowser
                    /\ \A u \in 1..NumTests : u # t => c \notin ContextsOf(u)
              /\ \A q \in PagesOf(t) : pages[q].context \in ContextsOf(t)

\* the first test's page acquisition failed; the second test runs with a
\* context and a page of its own in the same, still open browser
C5_Witness ==
    /\ PageFailed(1) /\ ContextsOf(1) # {}
    /\ test = 2
    /\ pc = "call"
    /\ \E c \in ContextsOf(2) : c \in OpenContexts /\ contexts[c].browser \in OpenBrowsers
    /\ PagesOf(2) \subseteq OpenPages /\ PagesOf(2) # {}

EndRecords(t) ==
    {i \in DOMAIN log : log[i].kind = "end" /\ log[i].test = t}
StartRecords(t) ==
    {i \in DOMAIN log : log[i].kind = "start" /\ log[i].test = t}

\* C6: for every test whose function raised, once the test is over an end
\* record of that test has been emitted with status FAILED and a duration
\* >= 0.
C6_RaisedTestLogsFailed ==
    \A t \in 1..NumTests :
        (bodyResult[t] = "failed" /\ Finished(t)) =>
            \E i \in EndRecords(t) :
                /\ log[i].status = "FAILED"
                /\ log[i].duration >= 0
                /\ log[i].level = "ERROR"

\* a raised test's end record, with time having advanced during the test
C6_Witness ==
    \E t \in 1..NumTests :
        /\ bodyResult[t] = "failed"
        /\ \E i \in EndRecords(t) : log[i].status = "FAILED" /\ log[i].duration > 0

\* C7: every test that is over has exactly one start record and exactly
\* one end record, the end record after the start record and before the
\* start record of any later test; at no time is there an end record
\* without an earlier start record of the same test, or a second end
\* record.
C7_OneStartOneEnd ==
    \A t \in 1..NumTests :
        /\ Cardinality(EndRecords(t)) <= 1
        /\ Cardinality(StartRecords(t)) <= 1
        /\ \A i \in EndRecords(t) : \E j \in StartRecords(t) : j < i
        /\ \A i \in EndRecords(t) :
              \A u \in 1..NumTests : \A j \in StartRecords(u) : u > t => i < j
        /\ Finished(t) =>
              /\ Cardinality(StartRecords(t)) = 1
              /\ Cardinality(EndRecords(t)) = 1


\* config.py has been imported without an exception
Resolved == pc \notin {"import", "import_error"}

\* C8: when TIMEOUT holds a text int() rejects (the empty text and
\* non-numeric text among them), the class body still completes and
\* Config.TIMEOUT is 30000; when TIMEOUT is unset it is 30000 as well.
C8_UnparseableTimeoutFallsBack ==
    pc # "import" =>
        /\ pc # "import_error"
        /\ (env.TIMEOUT.set /\ ~int(env.TIMEOUT.val).ok) => config.TIMEOUT = 30000
        /\ env.TIMEOUT \in {Str(<<>>), Str(<<"a">>), Str(<<"1", "a">>),
                            Str(<<"-">>), Str(<<" ">>), Str(<<"1", " ", "1">>)}
              => config.TIMEOUT = 30000
        /\ ~env.TIMEOUT.set => config.TIMEOUT = 30000

\* the configuration resolved from an empty TIMEOUT
C8_Witness ==
    /\ Resolved
    /\ env.TIMEOUT = Str(<<>>)
    /\ config.TIMEOUT = 30000

\* C9: whatever TIMEOUT holds, the resolved timeout is a positive integer.
C9_TimeoutPositive ==
    Resolved => (config.TIMEOUT \in Nat /\ config.TIMEOUT > 0)

\* s equals the lower-case word w up to the case of its letters
EqualsIgnoringCase(s, w) ==
    /\ Len(s) = Len(w)
    /\ \A i \in 1..Len(w) : s[i] = w[i] \/ s[i] = UpperChar(w[i])

\* C10: Config.HEADLESS is true exactly when HEADLESS equals one of "true",
\* "1", "yes", "on" up to letter case, false for every other text, and true
\* when HEADLESS is unset.
C10_HeadlessTokens ==
    Resolved =>
        /\ env.HEADLESS.set =>
              (config.HEADLESS <=>
                  \E w \in {<<"t", "r", "u", "e">>, <<"1">>, <<"y", "e", "s">>,
                            <<"o", "n">>} :
                      EqualsIgnoringCase(env.HEADLESS.val, w))
        /\ ~env.HEADLESS.set => config.HEADLESS = TRUE

\* a mixed-case token resolved to true
C10_Witness ==
    /\ Resolved
    /\ env.HEADLESS = Str(<<"O", "n">>)
    /\ config.HEADLESS = TRUE

(***************************************************************************)
(* test_runner.py: main() parses the command line, run_tests assembles the *)
(* pytest command and the child's environment, waits for the child, and    *)
(* main exits.                                                             *)
(***************************************************************************)
\* bool(s) of a string: every non-empty string is true
bool(s) == s # <<>>

\* str(b) of a bool
str_bool(b) == IF b THEN <<"T", "r", "u", "e">> ELSE <<"F", "a", "l", "s", "e">>

\* str(n) of an int
str_int(n) == ToString(n)

\* no option on the command line
NoArgv ==
    [install |-> FALSE, serve_allure |-> Unset, parallel |-> FALSE,
     workers |-> Unset, markers |-> Unset, test_file |-> Unset,
     browser |-> Unset, headless |-> Unset, device |-> Unset,
     log_level |-> Unset, show_logs |-> FALSE, allure |-> FALSE]

\* argparse: type=int for --workers, type=bool for --headless; an option
\* that is not passed is None (Unset)
ParseArgs(a) ==
    [ok |-> ~a.workers.set \/ int(a.workers.val).ok,
     args |-> [a EXCEPT
        !.workers = IF a.workers.set /\ int(a.workers.val).ok
                    THEN Str(int(a.workers.val).val) ELSE Unset,
        !.headless = IF a.headless.set THEN Str(bool(a.headless.val))
                     ELSE Unset]]

\* Python truthiness of an optional string argument: None and '' are false
Truthy(v) == v.set /\ v.val # ""

\* run_tests: the command list
Command(args, cli) ==
    <<"python", "-m", "pytest", "-v", "--tb=short",
      "--html=test-results/report.html", "--self-contained-html",
      "--junitxml=test-results/junit.xml">>
    \o (IF args.allure /\ cli THEN <<"--alluredir=allure-results">> ELSE <<>>)
    \o (IF args.show_logs THEN <<"--capture=no", "-s">> ELSE <<"--capture=sys">>)
    \o (IF args.parallel
        THEN IF args.workers.set /\ args.workers.val # 0
             THEN <<"-n", str_int(args.workers.val)>>
             ELSE <<"-n", "auto">>
        ELSE <<>>)
    \o (IF Truthy(args.markers) THEN <<"-m", args.markers.val>> ELSE <<>>)
    \o (IF Truthy(args.test_file) THEN <<args.test_file.val>> ELSE <<"tests/">>)

\* variant: the child's environment built from the overrides alone
ChildEnvOverridesOnly(args, e) ==
    [v \in DOMAIN e |->
        IF v = "BROWSER" /\ Truthy(args.browser) THEN Str(args.browser.val)
        ELSE IF v = "HEADLESS" /\ args.headless.set
             THEN Str(lower(str_bool(args.headless.val)))
        ELSE IF v = "DEVICE" /\ Truthy(args.device) THEN Str(args.device.val)
        ELSE IF v = "LOG_LEVEL" /\ args.log_level.set
             THEN Str(upper(args.log_level.val))
        ELSE Unset]

\* run_tests: os.environ.copy() with the overrides of the options passed
ChildEnv(args, e) ==
    [e EXCEPT
        !.BROWSER = IF Truthy(args.browser) THEN Str(args.browser.val) ELSE @,
        !.HEADLESS = IF args.headless.set
                     THEN Str(lower(str_bool(args.headless.val))) ELSE @,
        !.DEVICE = IF Truthy(args.device) THEN Str(args.device.val) ELSE @,
        !.LOG_LEVEL = IF args.log_level.set /\ args.log_level.val # <<>>
                      THEN Str(upper(args.log_level.val)) ELSE @]

\* success = result.returncode == 0; sys.exit(0 if success else 1)
ExitCode(result) == IF result.set /\ result.val = 0 THEN 0 ELSE 1

\* command lines of a test run
RunArgvs ==
    {[NoArgv EXCEPT !.allure = al, !.show_logs = sl, !.parallel = pa,
                    !.workers = w, !.markers = m, !.test_file = f,
                    !.headless = h, !.browser = o[1], !.device = o[2],
                    !.log_level = o[3]] :
        al \in BOOLEAN, sl \in BOOLEAN, pa \in BOOLEAN,
        w \in {Unset, Str(<<"0">>), Str(<<"2">>), Str(<<"a">>)},
        m \in {Unset, Str(""), Str("smoke")},
        f \in {Unset, Str("tests/test_login.py")},
        h \in {Unset, Str(<<>>), Str(<<"t", "r", "u", "e">>),
               Str(<<"f", "a", "l", "s", "e">>)},
        o \in {<<Unset, Unset, Unset>>,
               <<Str("firefox"), Unset, Str(<<"D", "E", "B", "U", "G">>)>>,
               <<Unset, Str("iPhone 12"), Unset>>}}

Argvs ==
    RunArgvs \cup {[NoArgv EXCEPT !.install = TRUE],
                   [NoArgv EXCEPT !.serve_allure = Str(8080)]}

\* environments test_runner.py is started in
RunnerEnvs ==
    {NoEnv,
     [NoEnv EXCEPT !.HEADLESS = Str(<<"f", "a", "l", "s", "e">>),
                   !.BROWSER = Str("webkit"),
                   !.TIMEOUT = Str(<<"7">>),
                   !.LOG_TO_CONSOLE = Str(<<"n", "o">>)]}

\* exit codes of the pytest child: passed, failed, interrupted, internal
\* error, usage error, no tests collected
ChildCodes == {0, 1, 2, 3, 4, 5}

InitRunner ==
    /\ InitProcess
    /\ WorkersIdle
    /\ LoggerIdle
    /\ PageIdle
    /\ logFile = [exists |-> FALSE, lines |-> <<>>]
    /\ logDir = "present"
    /\ env \in RunnerEnvs
    /\ argv \in Argvs
    /\ allureCli \in BOOLEAN
    /\ rpc = "start"
    /\ command = <<>>
    /\ childEnv = NoEnv
    /\ returncode = Unset
    /\ exitCode = -1

RunnerUnchanged ==
    UNCHANGED <<env, config, pc, sessionVars, logVars, loggerVars, pageVars,
                workerVars>>

\* main: parser.parse_args(); a usage error exits with argparse's code 2
main_parse ==
    /\ rpc = "start"
    /\ IF ParseArgs(argv).ok
       THEN rpc' = "parsed" /\ UNCHANGED exitCode
       ELSE rpc' = "exited" /\ exitCode' = 2
    /\ UNCHANGED <<argv, allureCli, command, childEnv, returncode>>
    /\ RunnerUnchanged

\* main: --install; install_dependencies() succeeds or not
main_install ==
    /\ rpc = "parsed"
    /\ ParseArgs(argv).args.install
    /\ exitCode' \in {0, 1}
    /\ rpc' = "exited"
    /\ UNCHANGED <<argv, allureCli, command, childEnv, returncode>>
    /\ RunnerUnchanged

\* main: --serve-allure; serve_allure_report() and return
main_serve_allure ==
    /\ rpc = "parsed"
    /\ ~ParseArgs(argv).args.install
    /\ ParseArgs(argv).args.serve_allure.set
    /\ ParseArgs(argv).args.serve_allure.val # 0
    /\ exitCode' = 0
    /\ rpc' = "exited"
    /\ UNCHANGED <<argv, allureCli, command, childEnv, returncode>>
    /\ RunnerUnchanged

\* run_tests up to subprocess.run(command, env=env)
run_tests ==
    /\ rpc = "parsed"
    /\ ~ParseArgs(argv).args.install
    /\ ~(/\ ParseArgs(argv).args.serve_allure.set
         /\ ParseArgs(argv).args.serve_allure.val # 0)
    /\ command' = Command(ParseArgs(argv).args, allureCli)
    /\ childEnv' = ChildEnv(ParseArgs(argv).args, env)
    /\ rpc' = "running"
    /\ UNCHANGED <<argv, allureCli, returncode, exitCode>>
    /\ RunnerUnchanged

\* the child process ends with some exit code, or could not be started
child_exit ==
    /\ rpc = "running"
    /\ \/ \E code \in ChildCodes : returncode' = Str(code)
       \/ UNCHANGED returncode
    /\ rpc' = "returned"
    /\ UNCHANGED <<argv, allureCli, command, childEnv, exitCode>>
    /\ RunnerUnchanged

\* run_tests returns success (False from the except branch); main exits
main_exit ==
    /\ rpc = "returned"
    /\ exitCode' = ExitCode(returncode)
    /\ rpc' = "exited"
    /\ UNCHANGED <<argv, allureCli, command, childEnv, returncode>>
    /\ RunnerUnchanged

NextRunner ==
    \/ main_parse
    \/ main_install
    \/ main_serve_allure
    \/ run_tests
    \/ child_exit
    \/ main_exit

SpecRunner == InitRunner /\ [][NextRunner]_vars


(***************************************************************************)
(* pages/base_page.py and pages/login_page.py: each operation of a page    *)
(* object makes driver calls that succeed or raise, hands records to the   *)
(* loggers, and returns or lets an exception leave.                        *)
(***************************************************************************)
\* LoginPage.username_input, LoginPage.password_input
LoginInputs == {"#user-name", "#password"}

\* selectors the operations are applied to
Selectors == LoginInputs \cup {"#login-button"}

\* TestLogger.log_action(action, element): one debug record
log_action(action, element) ==
    <<[kind |-> "action", level |-> "DEBUG", action |-> action,
       target |-> element]>>

\* TestLogger.log_error(error_message, exception)
log_error(target, exception) ==
    <<[kind |-> "error", level |-> "ERROR", target |-> target],
      [kind |-> "exception_details", level |-> "ERROR",
       exception |-> exception],
      [kind |-> "exception_type", level |-> "DEBUG", exception |-> exception]>>

\* TestLogger.log_screenshot(screenshot_path)
log_screenshot(path) ==
    <<[kind |-> "screenshot", level |-> "INFO", target |-> path]>>

\* a record the page object writes through self.logger
PageRecord(level, target) ==
    <<[kind |-> "page", level |-> level, target |-> target]>>

NoOp ==
    [op |-> "none", target |-> "", driver |-> "none", outcome |-> "none",
     value |-> FALSE, records |-> <<>>]

\* what an operation leaves behind
Done(op, target, driver, outcome, value, records) ==
    [op |-> op, target |-> target, driver |-> driver, outcome |-> outcome,
     value |-> value, records |-> records]

\* pages the browser may be showing
Worlds ==
    [url : {"base", "other"}, visible : [LoginInputs -> BOOLEAN]]

InitPage ==
    /\ InitProcess
    /\ WorkersIdle
    /\ LoggerIdle
    /\ RunnerIdle
    /\ env = NoEnv
    /\ logFile = [exists |-> FALSE, lines |-> <<>>]
    /\ logDir = "present"
    /\ world \in Worlds
    /\ lastOp = NoOp

PageUnchanged ==
    UNCHANGED <<env, config, pc, sessionVars, logVars, loggerVars, runnerVars,
                workerVars>>

\* BasePage.navigate_to(url): page.goto is not inside a try block
navigate_to(url) ==
    /\ \/ /\ lastOp' = Done("navigate_to", url, "ok", "returned", FALSE,
                            PageRecord("INFO", url)
                                \o log_action("Navigate to", url))
          /\ world' = [world EXCEPT !.url = url]
       \/ /\ lastOp' = Done("navigate_to", url, "error", "raised", FALSE,
                            PageRecord("INFO", url))
          /\ UNCHANGED world
    /\ PageUnchanged

\* BasePage.click_element / fill_input / get_text / wait_for_element: the
\* driver call is inside try, the except branch logs the error and re-raises
GuardedOp(op, selector) ==
    /\ \/ lastOp' = Done(op, selector, "ok", "returned", FALSE,
                         PageRecord("DEBUG", selector) \o log_action(op, selector))
       \/ lastOp' = Done(op, selector, "error", "raised", FALSE,
                         PageRecord("DEBUG", selector)
                             \o log_error(selector, "driver error"))
    /\ UNCHANGED world
    /\ PageUnchanged

click_element(selector) == GuardedOp("click_element", selector)

fill_input(selector) == GuardedOp("fill_input", selector)

get_text(selector) == GuardedOp("get_text", selector)

wait_for_element(selector) == GuardedOp("wait_for_element", selector)

\* variant: the driver error of locator(...).is_visible() is not caught
is_element_visible_unguarded(selector) ==
    /\ \/ lastOp' = Done("is_element_visible", selector, "ok", "returned",
                         world.visible[selector], PageRecord("DEBUG", selector))
       \/ lastOp' = Done("is_element_visible", selector, "error", "raised",
                         FALSE, <<>>)
    /\ UNCHANGED world
    /\ PageUnchanged

\* BasePage.is_element_visible: any exception becomes False
is_element_visible(selector) ==
    /\ \/ lastOp' = Done("is_element_visible", selector, "ok", "returned",
                         world.visible[selector], PageRecord("DEBUG", selector))
       \/ lastOp' = Done("is_element_visible", selector, "error", "returned",
                         FALSE, PageRecord("DEBUG", selector))
    /\ UNCHANGED world
    /\ PageUnchanged

\* BasePage.take_screenshot: the except branch logs and does not re-raise
take_screenshot ==
    /\ \/ lastOp' = Done("take_screenshot", "screenshots/screenshot.png", "ok",
                         "returned", FALSE,
                         PageRecord("INFO", "screenshots/screenshot.png")
                             \o log_screenshot("screenshots/screenshot.png"))
       \/ lastOp' = Done("take_screenshot", "screenshots/screenshot.png",
                         "error", "returned", FALSE,
                         PageRecord("INFO", "screenshots/screenshot.png")
                             \o log_error("screenshots/screenshot.png",
                                          "driver error"))
    /\ UNCHANGED world
    /\ PageUnchanged

\* the result of self.is_element_visible(selector) inside another operation
Visible(selector, driverOk) == driverOk /\ world.visible[selector]

\* expect(self.page.locator(selector)).to_be_visible() passes
to_be_visible(selector) == world.visible[selector]

\* LoginPage.verify_login_page_loaded: expect(page).to_have_url raises when
\* the URL differs; expect(locator).to_be_visible() is evaluated only for an
\* input is_element_visible reported visible
verify_login_page_loaded ==
    /\ \E okUser \in BOOLEAN, okPass \in BOOLEAN :
         LET driver == IF okUser /\ okPass THEN "ok" ELSE "error"
             records == PageRecord("DEBUG", "#user-name")
                            \o PageRecord("DEBUG", "#password")
         IN  IF world.url # "base"
             THEN lastOp' = Done("verify_login_page_loaded", "base", "ok",
                                 "raised", FALSE, <<>>)
             ELSE IF \A s \in LoginInputs :
                        Visible(s, IF s = "#user-name" THEN okUser ELSE okPass)
                            => to_be_visible(s)
                  THEN lastOp' = Done("verify_login_page_loaded", "base",
                                      driver, "returned", TRUE, records)
                  ELSE lastOp' = Done("verify_login_page_loaded", "base",
                                      driver, "raised", FALSE, records)
    /\ UNCHANGED world
    /\ PageUnchanged

NextPage ==
    \/ \E url \in {"base", "other"} : navigate_to(url)
    \/ \E s \in Selectors : click_element(s)
    \/ \E s \in Selectors : fill_input(s)
    \/ \E s \in Selectors : get_text(s)
    \/ \E s \in Selectors : wait_for_element(s)
    \/ \E s \in LoginInputs : is_element_visible(s)
    \/ take_screenshot
    \/ verify_login_page_loaded

SpecPage == InitPage /\ [][NextPage]_vars


(***************************************************************************)
(* Properties of utils/logger.py.                                          *)
(***************************************************************************)
\* the handlers of the given kind attached to the logger named n
SinkCount(n, kind) ==
    Cardinality({i \in DOMAIN loggers[n].handlers :
                    loggers[n].handlers[i].kind = kind})

\* C11: however often a logger name has been looked up, and whatever other
\* names were looked up in between, the logger has exactly one file sink if
\* and only if LOG_TO_FILE is enabled and exactly one console sink if and
\* only if LOG_TO_CONSOLE is enabled; a repeated lookup leaves the count as
\* it was.
C11_OneSinkPerKind ==
    \A n \in held :
        /\ SinkCount(n, "file") = (IF config.LOG_TO_FILE THEN 1 ELSE 0)
        /\ SinkCount(n, "console") = (IF config.LOG_TO_CONSOLE THEN 1 ELSE 0)

\* three lookups over two names, so one name was looked up again
C11_Witness ==
    /\ ops = 3
    /\ Cardinality(held) = 2
    /\ log = <<>>
    /\ sinceClear = -1
    /\ config.LOG_TO_FILE
    /\ ~config.LOG_TO_CONSOLE

\* the level setup_logger gives to loggers and handlers
ResolvedLevel == getattr_logging(config.LOG_LEVEL, LoggingInfo)

\* C12: with LOG_TO_FILE enabled, an event logged through a logger named
\* test.<name> at or above the resolved level adds exactly one line to the
\* log file, whatever loggers were looked up before.
C12_EventWrittenOnce ==
    (/\ config.LOG_TO_FILE
     /\ Len(lastEvent.logger) = 2
     /\ lastEvent.logger[1] = "test"
     /\ lastEvent.level >= ResolvedLevel)
        => lastEvent.lines = 1

\* C13: with LOG_TO_FILE enabled, clear_log_file followed by one log write
\* leaves exactly one line in the log file, whether or not the file existed
\* before.
C13_OneLineAfterClear ==
    (/\ config.LOG_TO_FILE
     /\ sinceClear = 1
     /\ lastEvent.level >= ResolvedLevel)
        => Len(logFile.lines) = 1

(***************************************************************************)
(* Properties of the context's device emulation.                           *)
(***************************************************************************)
\* the viewport of context_options before any device is merged in
DesktopViewport == [width |-> 1920, height |-> 1080]

\* C14: a context created while the resolved device profile has a non-null
\* entry in Config.DEVICES has that profile's viewport, which replaces the
\* 1920x1080 default; a context created for "Desktop Chrome" (null entry)
\* has the 1920x1080 default.
C14_ProfileViewport ==
    \A i \in DOMAIN contexts :
        config.DEVICE \in DOMAIN DEVICES =>
            IF DEVICES[config.DEVICE] = "None"
            THEN contexts[i].viewport = DesktopViewport
            ELSE /\ contexts[i].viewport # DesktopViewport
                 /\ DEVICES[config.DEVICE] \in DOMAIN PlaywrightDevices =>
                        contexts[i].viewport
                            = PlaywrightDevices[DEVICES[config.DEVICE]]

(***************************************************************************)
(* Properties of test_runner.py.                                           *)
(***************************************************************************)
\* C15: when the child test process has ended, the runner exits with the
\* child's exit code, whether that is 0, 1 or another code.
C15_ExitCodeMirrorsChild ==
    (rpc = "exited" /\ returncode.set) => exitCode = returncode.val

\* the command the claim describes for the parsed arguments: an option
\* counts as given when it was passed (a marker or file when it names one)
ClaimedCommand(args, cli) ==
    <<"python", "-m", "pytest", "-v", "--tb=short",
      "--html=test-results/report.html", "--self-contained-html",
      "--junitxml=test-results/junit.xml">>
    \o (IF args.allure /\ cli THEN <<"--alluredir=allure-results">> ELSE <<>>)
    \o (IF args.show_logs THEN <<"--capture=no", "-s">> ELSE <<"--capture=sys">>)
    \o (IF args.parallel
        THEN <<"-n", IF args.workers.set THEN str_int(args.workers.val)
                     ELSE "auto">>
        ELSE <<>>)
    \o (IF Truthy(args.markers) THEN <<"-m", args.markers.val>> ELSE <<>>)
    \o <<IF Truthy(args.test_file) THEN args.test_file.val ELSE "tests/">>

\* C16: the child command is the fixed prefix followed, in this order, by
\* --alluredir iff --allure was passed and the Allure CLI is found, the
\* capture flags (--capture=no -s iff --show-logs, else --capture=sys), -n
\* with the given worker count or 'auto' iff --parallel, -m with the marker
\* iff one was given, and exactly one target path last.
C16_CommandAssembly ==
    command # <<>> => command = ClaimedCommand(ParseArgs(argv).args, allureCli)

\* C17: --headless false makes the child resolve headless as false,
\* --headless true as true, and without the option the child's HEADLESS
\* variable is the runner's own.
C17_HeadlessOverride ==
    command # <<>> =>
        /\ argv.headless = Str(<<"f", "a", "l", "s", "e">>)
                => ~ConfigHeadless(childEnv)
        /\ argv.headless = Str(<<"t", "r", "u", "e">>)
                => ConfigHeadless(childEnv)
        /\ ~argv.headless.set => childEnv.HEADLESS = env.HEADLESS

(***************************************************************************)
(* Properties of the page objects.                                         *)
(***************************************************************************)
\* C18: verify_login_page_loaded succeeds only when the current URL is the
\* base URL and the username and password inputs are both visible; when
\* either input is not visible the verification fails.
C18_VerifyRequiresInputs ==
    (lastOp.op = "verify_login_page_loaded" /\ lastOp.outcome = "returned")
        => /\ world.url = "base"
           /\ \A s \in LoginInputs : world.visible[s]

\* the records of the last operation hold an error entry for its target
\* followed by the summary of the exception
ErrorLogged ==
    \E i, j \in DOMAIN lastOp.records :
        /\ i < j
        /\ lastOp.records[i].kind = "error"
        /\ lastOp.records[i].level = "ERROR"
        /\ lastOp.records[i].target = lastOp.target
        /\ lastOp.records[j].kind = "exception_details"
        /\ lastOp.records[j].level = "ERROR"

\* C19: when the driver fails during navigate, click, fill or wait-for-
\* element, an error-level entry naming the target and the exception summary
\* is logged before the exception leaves the operation, and the exception
\* does leave it.
C19_FailureLoggedThenRaised ==
    (/\ lastOp.op \in {"navigate_to", "click_element", "fill_input",
                       "wait_for_element"}
     /\ lastOp.driver = "error")
        => lastOp.outcome = "raised" /\ ErrorLogged

\* C20: a driver failure never leaves the visibility check or the screenshot
\* capture: the visibility check returns False, the screenshot capture logs
\* the error and returns.
C20_FailureContained ==
    (/\ lastOp.op \in {"is_element_visible", "take_screenshot"}
     /\ lastOp.driver = "error")
        => /\ lastOp.outcome = "returned"
           /\ lastOp.op = "is_element_visible" => lastOp.value = FALSE
           /\ lastOp.op = "take_screenshot" => ErrorLogged

\* the driver failed while checking an input that is in fact visible
C20_Witness ==
    /\ lastOp.op = "is_element_visible"
    /\ lastOp.driver = "error"
    /\ lastOp.outcome = "returned"
    /\ world.visible[lastOp.target]

(***************************************************************************)
(* Properties of the status written to the end record.                     *)
(***************************************************************************)
\* C21: the status of a test's end record is one of PASSED, FAILED, SKIPPED,
\* ERROR and UNKNOWN, and it is UNKNOWN only when no phase report was
\* captured for the test; a test whose setup phase failed, and whose setup
\* report was captured, is not given UNKNOWN.
C21_UnknownOnlyWithoutResult ==
    \A i \in EndRecords(test) :
        /\ log[i].status \in {"PASSED", "FAILED", "SKIPPED", "ERROR", "UNKNOWN"}
        /\ log[i].status = "UNKNOWN"
                => item.setup = "none" /\ item.call = "none"

(***************************************************************************)
(* Properties of clear_log_file.                                           *)
(***************************************************************************)
\* C22: clear_log_file never raises; when the log file did not exist the
\* directory of the log path exists afterwards, and when the filesystem
\* refuses the operation a warning is printed and the call returns.
C22_ClearIsSafe ==
    lastClear.outcome # "none" =>
        /\ lastClear.outcome = "returned"
        /\ (~lastClear.existed /\ sinceClear = 0) => logDir = "present"
        /\ (lastClear.existed /\ ~lastClear.fsOk) => lastClear.warned

(***************************************************************************)
(* Properties of the child's environment.                                  *)
(***************************************************************************)
\* the parsed arguments with the four overrides taken out
WithoutOverrides(args) ==
    [args EXCEPT !.browser = Unset, !.headless = Unset, !.device = Unset,
                 !.log_level = Unset]

\* the environment variables the given options override
Overridden(args) ==
    {v \in {"BROWSER"} : args.browser.set}
        \cup {v \in {"HEADLESS"} : args.headless.set}
        \cup {v \in {"DEVICE"} : args.device.set}
        \cup {v \in {"LOG_LEVEL"} : args.log_level.set}

\* the option names and the textual values of the given overrides
OverrideWords(args) ==
    {"--browser", "--headless", "--device", "--log-level", "true", "false",
     "True", "False", "DEBUG", "INFO", "WARNING", "ERROR"}
        \cup {args.browser.val : v \in {"BROWSER"} \cap Overridden(args)}
        \cup {args.device.val : v \in {"DEVICE"} \cap Overridden(args)}

\* C23: once the child has been started, the given browser, headless,
\* device and log-level overrides are set in the child's environment as
\* BROWSER, HEADLESS, DEVICE and LOG_LEVEL and are no element of the child's
\* command, which is the one assembled without them; every variable that is
\* not overridden reaches the child as it is in the parent's environment;
\* and no step changes the parent's environment.
C23_OverridesOnlyInChildEnv ==
    [][/\ env' = env
       /\ command' # <<>> =>
            /\ command' = Command(WithoutOverrides(ParseArgs(argv).args),
                                  allureCli)
            /\ \A i \in DOMAIN command' :
                    command'[i] \notin OverrideWords(ParseArgs(argv).args)
            /\ \A v \in Overridden(argv) : childEnv'[v].set
            /\ argv.browser.set => childEnv'.BROWSER = argv.browser
            /\ argv.device.set => childEnv'.DEVICE = argv.device
            /\ argv.log_level.set => childEnv'.LOG_LEVEL = argv.log_level
            /\ \A v \in DOMAIN env \ Overridden(argv) :
                    childEnv'[v] = env[v]]_vars

\* a child started with two overrides from a parent environment that sets
\* other variables
C23_Witness ==
    /\ command # <<>>
    /\ argv.browser.set
    /\ argv.headless.set
    /\ ~argv.device.set
    /\ env.TIMEOUT.set
    /\ childEnv.TIMEOUT = env.TIMEOUT
    /\ childEnv.BROWSER = argv.browser
    /\ childEnv.BROWSER # env.BROWSER

(***************************************************************************)
(* Properties of a parallel run.                                           *)
(***************************************************************************)
\* the lines of the file that log_test_execution wrote in this run
TestLines(f) ==
    {i \in DOMAIN f.lines : f.lines[i].kind \in {"start", "detail", "end"}}

\* C24: in a run with several workers on the one log file, no step of any
\* worker erases a test record that is in the file: the session-start clear
\* of a worker happens only while no test record of the run is written.
C24_ClearNeverErasesRecords ==
    [][\A i \in TestLines(logFile) :
            /\ i \in DOMAIN logFile'.lines
            /\ logFile'.lines[i] = logFile.lines[i]]_vars

=============================================================================
